---- MODULE Spec2Model ----
(***************************************************************************)
(* Grant / exchange state machine of the OAuth2 authorization server       *)
(* (oauth2.controller).  The store is the set of mongoose collections the  *)
(* controller reads and writes; every request handler is split at the      *)
(* store operations it awaits, so that concurrent requests interleave at   *)
(* those points.                                                           *)
(***************************************************************************)
EXTENDS Integers, FiniteSets, Sequences, TLC

\* Number of values each value generator hands out in one behaviour.
MaxCodes == 1
MaxAccessTokens == 3
MaxRefreshTokens == 3
\* Number of requests that can be in flight at the same time.
NReq == 2

Reqs == 1..NReq

\* Registered clients (client collection, immutable during token flows).
clientModel ==
  [c1 |-> [id |-> "c1", secret |-> "s1", scopes |-> {"read"}, redirectUris |-> {"uriA"}],
   c2 |-> [id |-> "c2", secret |-> "s2", scopes |-> {}, redirectUris |-> {"uriB"}]]

ClientIds == DOMAIN clientModel
\* Client ids a token request can carry: the registered ones and an unknown one.
PresentedClientIds == ClientIds \cup {"cX"}
Secrets == {"s1", "s2"}
Uris == {"uriA", "uriB"}
\* Registered users (user collection).
userModel ==
  [u1 |-> [id |-> "u1", name |-> "alice", email |-> "alice@mail",
           password |-> <<"hash", "pw1">>]]
UserIds == DOMAIN userModel
\* User names and passwords a password request can carry.
Usernames == {"alice@mail", "bob@mail"}
Passwords == {"pw1", "pw2"}
ScopeSets == {{"read"}}
\* Scopes a client-credentials request can ask for.
RequestedScopes == {{}, {"read"}, {"read", "write"}}

NoUser == [id |-> "", name |-> "", email |-> "", password |-> <<>>]
NoClient == [id |-> "", secret |-> "", scopes |-> {}, redirectUris |-> {}]
NoCode == [value |-> 0, clientId |-> "", userId |-> "", redirectUri |-> "",
           scopes |-> {}, expired |-> FALSE]
NoAccessToken == [value |-> 0, clientId |-> "", userId |-> "", scopes |-> {},
                  grantType |-> "", expired |-> FALSE]
NoRefreshToken == [value |-> 0, accessTokenId |-> 0]
NoResp == [none |-> TRUE]

VARIABLES
  authCodes,      \* authCode collection
  accessTokens,   \* accessToken collection
  refreshTokens,  \* refreshToken collection
  nextCode,       \* next value authCodeValueGenerator returns
  nextAccess,     \* next value accessTokenValueGenerator returns
  nextRefresh,    \* next value refreshTokenValueGenerator returns
  req,            \* per request slot: position in its handler and its locals
  last,           \* the request answered last and its outcome
  codeUses,       \* per code value: number of successful exchanges of it
  refreshUses     \* per refresh token value: number of successful exchanges of it

gens == <<nextCode, nextAccess, nextRefresh>>
hist == <<codeUses, refreshUses>>
vars == <<authCodes, accessTokens, refreshTokens, gens, req, last, hist>>

IdleReq ==
  [pc |-> "idle", client |-> "", cred |-> 0, uri |-> "", user |-> "", scope |-> {},
   authCode |-> NoCode,
   refreshTokenDoc |-> NoRefreshToken, oldAccessToken |-> NoAccessToken, accessToken |-> 0]

\* Outcomes: "success" is done(null, token, ...), "invalid_grant" is
\* done(null, false), "error" is done(err), "threw" is a handler that ended
\* by an exception without calling done, "responded" is an introspection body.
NoAnswer ==
  [op |-> "none", client |-> "", secret |-> "", cred |-> 0, uri |-> "",
   outcome |-> "none", tok |-> 0, rtok |-> 0, resp |-> NoResp]

Answer(op, client, secret, cred, uri, outcome, tok, rtok) ==
  [op |-> op, client |-> client, secret |-> secret, cred |-> cred, uri |-> uri,
   outcome |-> outcome, tok |-> tok, rtok |-> rtok, resp |-> NoResp]

----------------------------------------------------------------------------
(* Store operations *)

\* model.findOne({ value: v }): the document with that value, or null.
FindOne(coll, none, v) ==
  IF \E d \in coll : d.value = v THEN CHOOSE d \in coll : d.value = v ELSE none

\* clientModel.findOne({ id }).
FindClient(id) == IF id \in ClientIds THEN clientModel[id] ELSE NoClient

\* userModel.findOne({ email: username }).
FindUser(email) ==
  IF \E u \in UserIds : userModel[u].email = email
    THEN userModel[CHOOSE u \in UserIds : userModel[u].email = email]
    ELSE NoUser

\* validatePasswordHash(password, hash): whether hash is the hash of password.
validatePasswordHash(password, hash) == hash = <<"hash", password>>

\* A remove that leaves the document in the collection.
RemoveDocKept(coll, v) == coll

\* doc.remove(): deletes the document with the doc's _id; resolves also
\* when no such document is stored any more.
RemoveDoc(coll, v) == {d \in coll : d.value # v}

----------------------------------------------------------------------------
(* Handler decisions *)

\* The condition without the redirect uri check.
CodeMatchesAnyUri(authCode, client, redirectUri) ==
  /\ authCode # NoCode
  /\ client = authCode.clientId

\* Condition of the code exchange: code found, requested by the client it was
\* issued to, with the redirect uri it was issued for.
CodeMatches(authCode, client, redirectUri) ==
  /\ authCode # NoCode
  /\ client = authCode.clientId
  /\ redirectUri = authCode.redirectUri

\* The password exchange without the check of the client secret.
PasswordBranchAnySecret(clientDoc, secret, user, password) ==
  IF clientDoc # NoClient
    THEN IF user # NoUser /\ validatePasswordHash(password, user.password)
           THEN "mint"
           ELSE "invalid_grant"
    ELSE "invalid_grant"

\* Branch taken by the password exchange.
PasswordBranch(clientDoc, secret, user, password) ==
  IF clientDoc # NoClient /\ clientDoc.secret = secret
    THEN IF user # NoUser /\ validatePasswordHash(password, user.password)
           THEN "mint"
           ELSE "invalid_grant"
    ELSE "invalid_grant"

\* The branches without the one for a client that has no scopes.
ClientCredentialsBranchNoError(clientDoc, secret) ==
  IF clientDoc # NoClient /\ Cardinality(clientDoc.scopes) > 0 /\ clientDoc.secret = secret
    THEN "mint"
    ELSE "invalid_grant"

\* Branch taken by the client-credentials exchange.
ClientCredentialsBranch(clientDoc, secret) ==
  IF clientDoc # NoClient /\ Cardinality(clientDoc.scopes) > 0 /\ clientDoc.secret = secret
    THEN "mint"
    ELSE IF clientDoc # NoClient /\ Cardinality(clientDoc.scopes) = 0
           THEN "error"
           ELSE "invalid_grant"

\* Body sent by the introspection endpoint.
IntrospectResponse(token, accessToken, requester) ==
  IF token # 0 /\ accessToken # NoAccessToken /\ accessToken.clientId = requester
    THEN IF accessToken.userId # ""
           THEN [active |-> TRUE, clientId |-> accessToken.clientId,
                 scope |-> accessToken.scopes, exp |-> accessToken.value,
                 username |-> userModel[accessToken.userId].name]
           ELSE [active |-> TRUE, clientId |-> accessToken.clientId,
                 scope |-> accessToken.scopes, exp |-> accessToken.value]
    ELSE [active |-> FALSE]

----------------------------------------------------------------------------
(* Request bookkeeping *)

Free(r) == req[r].pc = "idle"
InFlight(r) == ~Free(r)

\* Values the requests in flight will still take from the value generators.
PendingAccess ==
  Cardinality({r \in Reqs : req[r].pc \in {"code_remove", "code_saveAT", "refresh_saveAT",
                                            "password_saveAT"}})
PendingRefresh == Cardinality({r \in Reqs : InFlight(r)})

\* A request starts only when the values it needs are left.
CanStart(r, kAccess, kRefresh) ==
  /\ Free(r)
  /\ nextAccess + kAccess + PendingAccess <= MaxAccessTokens + 1
  /\ nextRefresh + kRefresh + PendingRefresh <= MaxRefreshTokens + 1

Init ==
  /\ authCodes = {}
  /\ accessTokens = {}
  /\ refreshTokens = {}
  /\ nextCode = 1
  /\ nextAccess = 1
  /\ nextRefresh = 1
  /\ req = [r \in Reqs |-> IdleReq]
  /\ last = NoAnswer
  /\ codeUses = [v \in 1..MaxCodes |-> 0]
  /\ refreshUses = [v \in 1..MaxRefreshTokens |-> 0]

----------------------------------------------------------------------------
(* server.grant(oauth2orize.grant.code) *)
GrantCode(r, client, redirectUri, user, scope) ==
  /\ Free(r)
  /\ nextCode <= MaxCodes
  /\ redirectUri \in clientModel[client].redirectUris
  /\ authCodes' = authCodes \cup
       {[value |-> nextCode, clientId |-> client, userId |-> user,
         redirectUri |-> redirectUri, scopes |-> scope, expired |-> FALSE]}
  /\ nextCode' = nextCode + 1
  /\ last' = Answer("grantCode", client, "", 0, redirectUri, "success", nextCode, 0)
  /\ UNCHANGED <<accessTokens, refreshTokens, nextAccess, nextRefresh, req, hist>>

\* An implicit grant that also saves a refresh token for its access token.
GrantTokenWithRefresh(r, client, user, scope) ==
  /\ CanStart(r, 1, 1)
  /\ accessTokens' = accessTokens \cup
       {[value |-> nextAccess, clientId |-> client, userId |-> user, scopes |-> scope,
         grantType |-> "token", expired |-> FALSE]}
  /\ refreshTokens' = refreshTokens \cup
       {[value |-> nextRefresh, accessTokenId |-> nextAccess]}
  /\ nextAccess' = nextAccess + 1
  /\ nextRefresh' = nextRefresh + 1
  /\ last' = Answer("grantToken", client, "", 0, "", "success", nextAccess, nextRefresh)
  /\ UNCHANGED <<authCodes, nextCode, req, hist>>

(* server.grant(oauth2orize.grant.token) *)
GrantToken(r, client, user, scope) ==
  /\ CanStart(r, 1, 0)
  /\ accessTokens' = accessTokens \cup
       {[value |-> nextAccess, clientId |-> client, userId |-> user, scopes |-> scope,
         grantType |-> "token", expired |-> FALSE]}
  /\ nextAccess' = nextAccess + 1
  /\ last' = Answer("grantToken", client, "", 0, "", "success", nextAccess, 0)
  /\ UNCHANGED <<authCodes, refreshTokens, nextCode, nextRefresh, req, hist>>

----------------------------------------------------------------------------
(* server.exchange(oauth2orize.exchange.code) *)

\* A code exchange that deletes the code it rejects.
ExchangeCodeFindConsuming(r, client, code, redirectUri) ==
  /\ CanStart(r, 1, 1)
  /\ LET authCode == FindOne(authCodes, NoCode, code)
     IN IF CodeMatches(authCode, client, redirectUri)
          THEN /\ req' = [req EXCEPT ![r] =
                    [IdleReq EXCEPT !.pc = "code_remove", !.client = client,
                                    !.cred = code, !.uri = redirectUri,
                                    !.authCode = authCode]]
               /\ UNCHANGED <<last, authCodes>>
          ELSE /\ last' = Answer("code", client, "", code, redirectUri,
                                 "invalid_grant", 0, 0)
               /\ authCodes' = RemoveDoc(authCodes, code)
               /\ UNCHANGED req
  /\ UNCHANGED <<accessTokens, refreshTokens, gens, hist>>

\* authCodeModel.findOne({ value: code }).populate('clientId') and the check
ExchangeCodeFind(r, client, code, redirectUri) ==
  /\ CanStart(r, 1, 1)
  /\ LET authCode == FindOne(authCodes, NoCode, code)
     IN IF CodeMatches(authCode, client, redirectUri)
          THEN /\ req' = [req EXCEPT ![r] =
                    [IdleReq EXCEPT !.pc = "code_remove", !.client = client,
                                    !.cred = code, !.uri = redirectUri,
                                    !.authCode = authCode]]
               /\ UNCHANGED last
          ELSE /\ last' = Answer("code", client, "", code, redirectUri,
                                 "invalid_grant", 0, 0)
               /\ UNCHANGED req
  /\ UNCHANGED <<authCodes, accessTokens, refreshTokens, gens, hist>>

\* authCode = await authCode.remove()
ExchangeCodeRemove(r) ==
  /\ req[r].pc = "code_remove"
  /\ authCodes' = RemoveDoc(authCodes, req[r].authCode.value)
  /\ req' = [req EXCEPT ![r].pc = "code_saveAT"]
  /\ UNCHANGED <<accessTokens, refreshTokens, gens, last, hist>>

\* A code exchange that mints its access token without the user of the code.
ExchangeCodeSaveAccessTokenNoUser(r) ==
  /\ req[r].pc = "code_saveAT"
  /\ accessTokens' = accessTokens \cup
       {[value |-> nextAccess, clientId |-> req[r].authCode.clientId,
         userId |-> "", scopes |-> req[r].authCode.scopes,
         grantType |-> "code", expired |-> FALSE]}
  /\ nextAccess' = nextAccess + 1
  /\ req' = [req EXCEPT ![r].pc = "code_saveRT", ![r].accessToken = nextAccess]
  /\ UNCHANGED <<authCodes, refreshTokens, nextCode, nextRefresh, last, hist>>

\* new accessTokenModel({ ..., grantType: 'code' }).save()
ExchangeCodeSaveAccessToken(r) ==
  /\ req[r].pc = "code_saveAT"
  /\ accessTokens' = accessTokens \cup
       {[value |-> nextAccess, clientId |-> req[r].authCode.clientId,
         userId |-> req[r].authCode.userId, scopes |-> req[r].authCode.scopes,
         grantType |-> "code", expired |-> FALSE]}
  /\ nextAccess' = nextAccess + 1
  /\ req' = [req EXCEPT ![r].pc = "code_saveRT", ![r].accessToken = nextAccess]
  /\ UNCHANGED <<authCodes, refreshTokens, nextCode, nextRefresh, last, hist>>

\* new refreshTokenModel({ ... }).save() and done(null, accessToken, refreshToken)
ExchangeCodeSaveRefreshToken(r) ==
  /\ req[r].pc = "code_saveRT"
  /\ refreshTokens' = refreshTokens \cup
       {[value |-> nextRefresh, accessTokenId |-> req[r].accessToken]}
  /\ nextRefresh' = nextRefresh + 1
  /\ last' = Answer("code", req[r].client, "", req[r].cred, req[r].uri, "success",
                    req[r].accessToken, nextRefresh)
  /\ codeUses' = [codeUses EXCEPT ![req[r].cred] = @ + 1]
  /\ req' = [req EXCEPT ![r] = IdleReq]
  /\ UNCHANGED <<authCodes, accessTokens, nextCode, nextAccess, refreshUses>>

----------------------------------------------------------------------------
(* server.exchange(oauth2orize.exchange.password) *)

\* clientModel.findOne({ id }), userModel.findOne({ email }) and the checks.
\* Clients and users do not change during token flows, so the two lookups
\* read the same documents at whatever moments they run.
ExchangePasswordFind(r, client, secret, username, password, scope) ==
  /\ CanStart(r, 1, 1)
  /\ LET clientDoc == FindClient(client)
         user == FindUser(username)
     IN IF PasswordBranch(clientDoc, secret, user, password) = "mint"
          THEN /\ req' = [req EXCEPT ![r] =
                    [IdleReq EXCEPT !.pc = "password_saveAT", !.client = client,
                                    !.user = user.id, !.scope = scope]]
               /\ UNCHANGED last
          ELSE /\ last' = Answer("password", client, secret, 0, "", "invalid_grant", 0, 0)
               /\ UNCHANGED req
  /\ UNCHANGED <<authCodes, accessTokens, refreshTokens, gens, hist>>

\* new accessTokenModel({ ..., grantType: 'password' }).save()
ExchangePasswordSaveAccessToken(r) ==
  /\ req[r].pc = "password_saveAT"
  /\ accessTokens' = accessTokens \cup
       {[value |-> nextAccess, clientId |-> req[r].client, userId |-> req[r].user,
         scopes |-> req[r].scope, grantType |-> "password", expired |-> FALSE]}
  /\ nextAccess' = nextAccess + 1
  /\ req' = [req EXCEPT ![r].pc = "password_saveRT", ![r].accessToken = nextAccess]
  /\ UNCHANGED <<authCodes, refreshTokens, nextCode, nextRefresh, last, hist>>

\* new refreshTokenModel({ ... }).save() and done(null, accessToken, refreshToken)
ExchangePasswordSaveRefreshToken(r) ==
  /\ req[r].pc = "password_saveRT"
  /\ refreshTokens' = refreshTokens \cup
       {[value |-> nextRefresh, accessTokenId |-> req[r].accessToken]}
  /\ nextRefresh' = nextRefresh + 1
  /\ last' = Answer("password", req[r].client, "", 0, "", "success",
                    req[r].accessToken, nextRefresh)
  /\ req' = [req EXCEPT ![r] = IdleReq]
  /\ UNCHANGED <<authCodes, accessTokens, nextCode, nextAccess, hist>>

----------------------------------------------------------------------------
\* A client-credentials exchange that grants the scope the request asks for.
ExchangeClientCredentialsRequestedScope(r, client, secret, scope) ==
  /\ CanStart(r, 1, 0)
  /\ LET clientDoc == FindClient(client)
         branch == ClientCredentialsBranch(clientDoc, secret)
     IN IF branch = "mint"
          THEN /\ accessTokens' = accessTokens \cup
                    {[value |-> nextAccess, clientId |-> client, userId |-> "",
                      scopes |-> scope, grantType |-> "client_credentials",
                      expired |-> FALSE]}
               /\ nextAccess' = nextAccess + 1
               /\ last' = Answer("client_credentials", client, secret, 0, "",
                                 "success", nextAccess, 0)
          ELSE /\ last' = Answer("client_credentials", client, secret, 0, "",
                                 branch, 0, 0)
               /\ UNCHANGED <<accessTokens, nextAccess>>
  /\ UNCHANGED <<authCodes, refreshTokens, nextCode, nextRefresh, req, hist>>

\* A client-credentials exchange that also saves and returns a refresh token.
ExchangeClientCredentialsWithRefresh(r, client, secret, scope) ==
  /\ CanStart(r, 1, 1)
  /\ LET clientDoc == FindClient(client)
         branch == ClientCredentialsBranch(clientDoc, secret)
     IN IF branch = "mint"
          THEN /\ accessTokens' = accessTokens \cup
                    {[value |-> nextAccess, clientId |-> client, userId |-> "",
                      scopes |-> clientDoc.scopes, grantType |-> "client_credentials",
                      expired |-> FALSE]}
               /\ refreshTokens' = refreshTokens \cup
                    {[value |-> nextRefresh, accessTokenId |-> nextAccess]}
               /\ nextAccess' = nextAccess + 1
               /\ nextRefresh' = nextRefresh + 1
               /\ last' = Answer("client_credentials", client, secret, 0, "",
                                 "success", nextAccess, nextRefresh)
          ELSE /\ last' = Answer("client_credentials", client, secret, 0, "",
                                 branch, 0, 0)
               /\ UNCHANGED <<accessTokens, refreshTokens, nextAccess, nextRefresh>>
  /\ UNCHANGED <<authCodes, nextCode, req, hist>>

(* server.exchange(oauth2orize.exchange.clientCredentials) *)
ExchangeClientCredentials(r, client, secret, scope) ==
  /\ CanStart(r, 1, 0)
  /\ LET clientDoc == FindClient(client)
         branch == ClientCredentialsBranch(clientDoc, secret)
     IN IF branch = "mint"
          THEN /\ accessTokens' = accessTokens \cup
                    {[value |-> nextAccess, clientId |-> client, userId |-> "",
                      scopes |-> clientDoc.scopes, grantType |-> "client_credentials",
                      expired |-> FALSE]}
               /\ nextAccess' = nextAccess + 1
               /\ last' = Answer("client_credentials", client, secret, 0, "",
                                 "success", nextAccess, 0)
          ELSE /\ last' = Answer("client_credentials", client, secret, 0, "",
                                 branch, 0, 0)
               /\ UNCHANGED <<accessTokens, nextAccess>>
  /\ UNCHANGED <<authCodes, refreshTokens, nextCode, nextRefresh, req, hist>>

----------------------------------------------------------------------------
(* server.exchange(oauth2orize.exchange.refreshToken) *)

\* refreshTokenModel.findOne({ value }).populate(accessTokenId -> clientId)
\* and the check.  A stored refresh token whose access token is gone is
\* populated with null, and reading its clientId throws outside the try
\* block: the handler ends without calling done.
ExchangeRefreshFind(r, client, refreshToken) ==
  /\ CanStart(r, 1, 1)
  /\ LET refreshTokenDoc == FindOne(refreshTokens, NoRefreshToken, refreshToken)
         old == FindOne(accessTokens, NoAccessToken, refreshTokenDoc.accessTokenId)
         outcome == IF refreshTokenDoc = NoRefreshToken THEN "invalid_grant"
                    ELSE IF old = NoAccessToken THEN "threw"
                    ELSE IF old.clientId = client THEN "go"
                    ELSE "invalid_grant"
     IN IF outcome = "go"
          THEN /\ req' = [req EXCEPT ![r] =
                    [IdleReq EXCEPT !.pc = "refresh_saveAT", !.client = client,
                                    !.cred = refreshToken,
                                    !.refreshTokenDoc = refreshTokenDoc,
                                    !.oldAccessToken = old]]
               /\ UNCHANGED last
          ELSE /\ last' = Answer("refresh_token", client, "", refreshToken, "",
                                 outcome, 0, 0)
               /\ UNCHANGED req
  /\ UNCHANGED <<authCodes, accessTokens, refreshTokens, gens, hist>>

\* A rotation that marks the new access token with the grant type of the
\* request instead of the grant type of the old token.
ExchangeRefreshSaveAccessTokenRetyped(r) ==
  /\ req[r].pc = "refresh_saveAT"
  /\ accessTokens' = accessTokens \cup
       {[value |-> nextAccess, clientId |-> req[r].oldAccessToken.clientId,
         userId |-> req[r].oldAccessToken.userId,
         scopes |-> req[r].oldAccessToken.scopes,
         grantType |-> "refresh_token", expired |-> FALSE]}
  /\ nextAccess' = nextAccess + 1
  /\ req' = [req EXCEPT ![r].pc = "refresh_removeAT", ![r].accessToken = nextAccess]
  /\ UNCHANGED <<authCodes, refreshTokens, nextCode, nextRefresh, last, hist>>

\* new accessTokenModel({ ...fields of the old access token }).save()
ExchangeRefreshSaveAccessToken(r) ==
  /\ req[r].pc = "refresh_saveAT"
  /\ accessTokens' = accessTokens \cup
       {[value |-> nextAccess, clientId |-> req[r].oldAccessToken.clientId,
         userId |-> req[r].oldAccessToken.userId,
         scopes |-> req[r].oldAccessToken.scopes,
         grantType |-> req[r].oldAccessToken.grantType, expired |-> FALSE]}
  /\ nextAccess' = nextAccess + 1
  /\ req' = [req EXCEPT ![r].pc = "refresh_removeAT", ![r].accessToken = nextAccess]
  /\ UNCHANGED <<authCodes, refreshTokens, nextCode, nextRefresh, last, hist>>

\* await refreshTokenDoc.accessTokenId.remove()
ExchangeRefreshRemoveAccessToken(r) ==
  /\ req[r].pc = "refresh_removeAT"
  /\ accessTokens' = RemoveDoc(accessTokens, req[r].oldAccessToken.value)
  /\ req' = [req EXCEPT ![r].pc = "refresh_removeRT"]
  /\ UNCHANGED <<authCodes, refreshTokens, gens, last, hist>>

\* A rotation that skips the removal of the presented refresh token.
ExchangeRefreshKeepRefreshToken(r) ==
  /\ req[r].pc = "refresh_removeRT"
  /\ req' = [req EXCEPT ![r].pc = "refresh_saveRT"]
  /\ UNCHANGED <<authCodes, accessTokens, refreshTokens, gens, last, hist>>

\* await refreshTokenDoc.remove()
ExchangeRefreshRemoveRefreshToken(r) ==
  /\ req[r].pc = "refresh_removeRT"
  /\ refreshTokens' = RemoveDoc(refreshTokens, req[r].refreshTokenDoc.value)
  /\ req' = [req EXCEPT ![r].pc = "refresh_saveRT"]
  /\ UNCHANGED <<authCodes, accessTokens, gens, last, hist>>

\* new refreshTokenModel({ ... }).save() and done(null, accessToken, newRefreshToken)
ExchangeRefreshSaveRefreshToken(r) ==
  /\ req[r].pc = "refresh_saveRT"
  /\ refreshTokens' = refreshTokens \cup
       {[value |-> nextRefresh, accessTokenId |-> req[r].accessToken]}
  /\ nextRefresh' = nextRefresh + 1
  /\ last' = Answer("refresh_token", req[r].client, "", req[r].cred, "", "success",
                    req[r].accessToken, nextRefresh)
  /\ refreshUses' = [refreshUses EXCEPT ![req[r].cred] = @ + 1]
  /\ req' = [req EXCEPT ![r] = IdleReq]
  /\ UNCHANGED <<authCodes, accessTokens, nextCode, nextAccess, codeUses>>

----------------------------------------------------------------------------
(* tokenIntrospectionEndpoint; token 0 is a request without a token *)
Introspect(r, requester, token) ==
  /\ Free(r)
  /\ LET accessToken == FindOne(accessTokens, NoAccessToken, token)
     IN last' = [Answer("introspect", requester, "", token, "", "responded", 0, 0)
                   EXCEPT !.resp = IntrospectResponse(token, accessToken, requester)]
  /\ UNCHANGED <<authCodes, accessTokens, refreshTokens, gens, req, hist>>

----------------------------------------------------------------------------
(* TTL of the collections: a document passes its expireAt date, and the    *)
(* TTL monitor of the database removes it some time later.                 *)

\* Documents of one collection live equally long, so they pass their
\* expireAt date in the order of their creation.
ExpireCode ==
  \E c \in authCodes :
    /\ ~c.expired
    /\ \A d \in authCodes : d.value < c.value => d.expired
    /\ authCodes' = (authCodes \ {c}) \cup {[c EXCEPT !.expired = TRUE]}
    /\ UNCHANGED <<accessTokens, refreshTokens, gens, req, last, hist>>

ExpireAccessToken ==
  \E t \in accessTokens :
    /\ ~t.expired
    /\ \A d \in accessTokens : d.value < t.value => d.expired
    /\ accessTokens' = (accessTokens \ {t}) \cup {[t EXCEPT !.expired = TRUE]}
    /\ UNCHANGED <<authCodes, refreshTokens, gens, req, last, hist>>

Expire ==
  \/ ExpireCode
  \/ ExpireAccessToken

TTLMonitorCode ==
  \E c \in authCodes :
    /\ c.expired
    /\ authCodes' = authCodes \ {c}
    /\ UNCHANGED <<accessTokens, refreshTokens, gens, req, last, hist>>

TTLMonitorAccessToken ==
  \E t \in accessTokens :
    /\ t.expired
    /\ accessTokens' = accessTokens \ {t}
    /\ UNCHANGED <<authCodes, refreshTokens, gens, req, last, hist>>

\* An access token is saved before the refresh token paired with it and
\* both live equally long, so the refresh token is not due before it.
TTLMonitorRefreshToken ==
  \E t \in refreshTokens :
    /\ \A a \in accessTokens : a.value = t.accessTokenId => a.expired
    /\ refreshTokens' = refreshTokens \ {t}
    /\ UNCHANGED <<authCodes, accessTokens, gens, req, last, hist>>

TTLMonitor ==
  \/ TTLMonitorCode
  \/ TTLMonitorAccessToken
  \/ TTLMonitorRefreshToken

----------------------------------------------------------------------------
\* Values a request can present: every value handed out so far.
PresentedCodes == 1..(nextCode - 1)
PresentedAccess == 1..(nextAccess - 1)
PresentedRefresh == 1..(nextRefresh - 1)

Start(r) ==
  \/ \E c \in ClientIds, u \in Uris, usr \in UserIds, s \in ScopeSets :
       GrantCode(r, c, u, usr, s)
  \/ \E c \in ClientIds, usr \in UserIds, s \in ScopeSets : GrantToken(r, c, usr, s)
  \/ \E c \in ClientIds, v \in PresentedCodes, u \in Uris : ExchangeCodeFind(r, c, v, u)
  \/ \E c \in PresentedClientIds, s \in Secrets, sc \in RequestedScopes :
       ExchangeClientCredentials(r, c, s, sc)
  \/ \E c \in ClientIds, v \in PresentedRefresh : ExchangeRefreshFind(r, c, v)
  \/ \E c \in ClientIds, v \in PresentedAccess \cup {0} : Introspect(r, c, v)

Continue(r) ==
  \/ ExchangeCodeRemove(r)
  \/ ExchangeCodeSaveAccessToken(r)
  \/ ExchangeCodeSaveRefreshToken(r)
  \/ ExchangeRefreshSaveAccessToken(r)
  \/ ExchangeRefreshRemoveAccessToken(r)
  \/ ExchangeRefreshRemoveRefreshToken(r)
  \/ ExchangeRefreshSaveRefreshToken(r)

Next ==
  \/ \E r \in Reqs : Start(r)
  \/ \E r \in Reqs : Continue(r)
  \/ Expire
  \/ TTLMonitor

Spec == Init /\ [][Next]_vars

(* authorizationEndpoint: the immediate-approval callback *)

\* Scopes an authorization request can ask for.
AuthorizationScopes == {{"read"}, {"read", "write"}}

\* isScopeEquals(scopes, scope): the two lists hold the same scopes.
isScopeEquals(scopes, scope) == scopes = scope

\* accessTokenModel.findOne({ clientId, userId }) and the decision. The query
\* has no sort: when several documents match, the store returns any of them.
ImmediateApproval(r, client, user, scope) ==
  /\ Free(r)
  /\ LET matching == {t \in accessTokens : t.clientId = client /\ t.userId = user}
     IN \E accessToken \in (IF matching = {} THEN {NoAccessToken} ELSE matching) :
          last' = Answer("authorization", client, "", 0, "",
                         IF /\ accessToken # NoAccessToken
                            /\ isScopeEquals(accessToken.scopes, scope)
                           THEN "approved" ELSE "ask",
                         accessToken.value, 0)
  /\ UNCHANGED <<authCodes, accessTokens, refreshTokens, gens, req, hist>>

\* Implicit grants for several scopes and authorization requests that look
\* for an earlier token, with expiry.
AuthorizationNext ==
  \/ \E r \in Reqs, c \in ClientIds, usr \in UserIds, s \in AuthorizationScopes :
       GrantToken(r, c, usr, s)
  \/ \E r \in Reqs, c \in ClientIds, usr \in UserIds, s \in AuthorizationScopes :
       ImmediateApproval(r, c, usr, s)
  \/ ExpireAccessToken
  \/ TTLMonitorAccessToken

AuthorizationSpec == Init /\ [][AuthorizationNext]_vars

----------------------------------------------------------------------------
(* Store failures: an awaited store operation rejects and changes nothing.
   A rejection inside the handler's try block reaches catch and done(err);
   a rejection of a lookup made before the try block rejects the handler's
   promise and done is never called. *)

\* authCodeModel.findOne(...).populate(...) rejects.
ExchangeCodeFindFails(r, client, code, redirectUri) ==
  /\ CanStart(r, 1, 1)
  /\ last' = Answer("code", client, "", code, redirectUri, "threw", 0, 0)
  /\ UNCHANGED <<authCodes, accessTokens, refreshTokens, gens, req, hist>>

\* authCode.remove() or one of the two save() calls rejects: done(err).
ExchangeCodeStepFails(r) ==
  /\ req[r].pc \in {"code_remove", "code_saveAT", "code_saveRT"}
  /\ last' = Answer("code", req[r].client, "", req[r].cred, req[r].uri, "error", 0, 0)
  /\ req' = [req EXCEPT ![r] = IdleReq]
  /\ UNCHANGED <<authCodes, accessTokens, refreshTokens, gens, hist>>

\* clientModel.findOne(...) rejects, or userModel.findOne(...) rejects after
\* the client passed its check.
ExchangePasswordFindFails(r, client, secret) ==
  /\ CanStart(r, 1, 1)
  /\ last' = Answer("password", client, secret, 0, "", "threw", 0, 0)
  /\ UNCHANGED <<authCodes, accessTokens, refreshTokens, gens, req, hist>>

\* One of the two save() calls of the password exchange rejects: done(err).
ExchangePasswordStepFails(r) ==
  /\ req[r].pc \in {"password_saveAT", "password_saveRT"}
  /\ last' = Answer("password", req[r].client, "", 0, "", "error", 0, 0)
  /\ req' = [req EXCEPT ![r] = IdleReq]
  /\ UNCHANGED <<authCodes, accessTokens, refreshTokens, gens, hist>>

\* refreshTokenModel.findOne(...).populate(...) rejects.
ExchangeRefreshFindFails(r, client, refreshToken) ==
  /\ CanStart(r, 1, 1)
  /\ last' = Answer("refresh_token", client, "", refreshToken, "", "threw", 0, 0)
  /\ UNCHANGED <<authCodes, accessTokens, refreshTokens, gens, req, hist>>

\* A save() or remove() call of the refresh exchange rejects: done(err).
ExchangeRefreshStepFails(r) ==
  /\ req[r].pc \in {"refresh_saveAT", "refresh_removeAT", "refresh_removeRT",
                     "refresh_saveRT"}
  /\ last' = Answer("refresh_token", req[r].client, "", req[r].cred, "", "error", 0, 0)
  /\ req' = [req EXCEPT ![r] = IdleReq]
  /\ UNCHANGED <<authCodes, accessTokens, refreshTokens, gens, hist>>

\* The code, password and refresh exchanges over a store whose operations can
\* fail, served one after another and without expiry, so that the store a
\* request finds changes only by the steps of that request.
FaultStart(r) ==
  \/ \E c \in ClientIds, u \in Uris, usr \in UserIds, s \in ScopeSets :
       GrantCode(r, c, u, usr, s)
  \/ \E c \in ClientIds, v \in PresentedCodes, u \in Uris :
       \/ ExchangeCodeFind(r, c, v, u)
       \/ ExchangeCodeFindFails(r, c, v, u)
  \/ \E c \in PresentedClientIds, s \in Secrets :
       \/ \E un \in Usernames, pw \in Passwords, sc \in ScopeSets :
            ExchangePasswordFind(r, c, s, un, pw, sc)
       \/ ExchangePasswordFindFails(r, c, s)
  \/ \E c \in ClientIds, v \in PresentedRefresh :
       \/ ExchangeRefreshFind(r, c, v)
       \/ ExchangeRefreshFindFails(r, c, v)

FaultContinue(r) ==
  \/ ExchangeCodeRemove(r)
  \/ ExchangeCodeSaveAccessToken(r)
  \/ ExchangeCodeSaveRefreshToken(r)
  \/ ExchangeCodeStepFails(r)
  \/ ExchangePasswordSaveAccessToken(r)
  \/ ExchangePasswordSaveRefreshToken(r)
  \/ ExchangePasswordStepFails(r)
  \/ ExchangeRefreshSaveAccessToken(r)
  \/ ExchangeRefreshRemoveAccessToken(r)
  \/ ExchangeRefreshRemoveRefreshToken(r)
  \/ ExchangeRefreshSaveRefreshToken(r)
  \/ ExchangeRefreshStepFails(r)

FaultNext ==
  \/ \E r \in Reqs : (\A q \in Reqs : Free(q)) /\ FaultStart(r)
  \/ \E r \in Reqs : FaultContinue(r)

FaultSpec == Init /\ [][FaultNext]_vars

\* The password exchange, the rotation of the tokens it issues, and expiry.
PasswordStart(r) ==
  \/ \E c \in PresentedClientIds, s \in Secrets, un \in Usernames, pw \in Passwords,
        sc \in ScopeSets : ExchangePasswordFind(r, c, s, un, pw, sc)
  \/ \E c \in ClientIds, v \in PresentedRefresh : ExchangeRefreshFind(r, c, v)

PasswordContinue(r) ==
  \/ ExchangePasswordSaveAccessToken(r)
  \/ ExchangePasswordSaveRefreshToken(r)
  \/ ExchangeRefreshSaveAccessToken(r)
  \/ ExchangeRefreshRemoveAccessToken(r)
  \/ ExchangeRefreshRemoveRefreshToken(r)
  \/ ExchangeRefreshSaveRefreshToken(r)

PasswordNext ==
  \/ \E r \in Reqs : PasswordStart(r)
  \/ \E r \in Reqs : PasswordContinue(r)
  \/ ExpireAccessToken
  \/ TTLMonitorAccessToken
  \/ TTLMonitorRefreshToken

PasswordSpec == Init /\ [][PasswordNext]_vars

\* Every handler that mints tokens, the password exchange included.
TokenStart(r) ==
  \/ \E c \in ClientIds, u \in Uris, usr \in UserIds, s \in ScopeSets :
       GrantCode(r, c, u, usr, s)
  \/ \E c \in ClientIds, usr \in UserIds, s \in ScopeSets : GrantToken(r, c, usr, s)
  \/ \E c \in ClientIds, v \in PresentedCodes, u \in Uris : ExchangeCodeFind(r, c, v, u)
  \/ \E c \in PresentedClientIds, s \in Secrets, sc \in RequestedScopes :
       ExchangeClientCredentials(r, c, s, sc)
  \/ \E c \in PresentedClientIds, s \in Secrets, un \in Usernames, pw \in Passwords,
        sc \in ScopeSets : ExchangePasswordFind(r, c, s, un, pw, sc)
  \/ \E c \in ClientIds, v \in PresentedRefresh : ExchangeRefreshFind(r, c, v)

TokenContinue(r) ==
  \/ Continue(r)
  \/ ExchangePasswordSaveAccessToken(r)
  \/ ExchangePasswordSaveRefreshToken(r)

\* The minting handlers with requests served one after another.
TokenSeqNext ==
  \/ \E r \in Reqs : (\A q \in Reqs : Free(q)) /\ TokenStart(r)
  \/ \E r \in Reqs : TokenContinue(r)
  \/ Expire
  \/ TTLMonitor

TokenSeqSpec == Init /\ [][TokenSeqNext]_vars

\* Requests served one after another: a request starts only when no other
\* request is in flight.
SeqNext ==
  \/ \E r \in Reqs : (\A q \in Reqs : Free(q)) /\ Start(r)
  \/ \E r \in Reqs : Continue(r)
  \/ Expire
  \/ TTLMonitor

SeqSpec == Init /\ [][SeqNext]_vars

----------------------------------------------------------------------------
(* Properties *)

\* A property about a handler step names the step by its action; a leading
\* conjunct on the answer or on the position only selects those steps.
Values(coll) == {d.value : d \in coll}
StoreUnchanged == UNCHANGED <<authCodes, accessTokens, refreshTokens>>

\* C1: however many concurrent exchanges present one code value, at most one
\* of them succeeds (the others end with invalid-grant).
CodeExchangedOnce == \A v \in DOMAIN codeUses : codeUses[v] <= 1

\* C2: however many concurrent exchanges present one refresh token value, at
\* most one of them succeeds, so one value mints at most one token pair.
RefreshExchangedOnce == \A v \in DOMAIN refreshUses : refreshUses[v] <= 1

\* C3: with requests served one after another, an exchange of a stored code
\* by its client with its redirect uri goes on to succeed, its success leaves
\* the code deleted and is the only success for that value, and an exchange
\* of a value that was exchanged before ends with invalid-grant.
CodeSingleUseSequential ==
  [][/\ \A r \in Reqs, c \in ClientIds, v \in 1..MaxCodes, u \in Uris :
          (last'.op = "code" \/ req'[r].pc = "code_remove") /\ ExchangeCodeFind(r, c, v, u) =>
            /\ (\E d \in authCodes : d.value = v /\ d.clientId = c /\ d.redirectUri = u)
                  => /\ req'[r].pc = "code_remove"
                     /\ codeUses[v] = 0
            /\ codeUses[v] >= 1
                  => /\ last' = Answer("code", c, "", v, u, "invalid_grant", 0, 0)
                     /\ req' = req
     /\ \A r \in Reqs :
          InFlight(r) /\ req[r].pc \in {"code_remove", "code_saveAT", "code_saveRT"} =>
            \/ req'[r].pc \in {"code_remove", "code_saveAT", "code_saveRT"}
            \/ /\ last'.op = "code" /\ last'.cred = req[r].cred
               /\ last'.outcome = "success"
               /\ req[r].cred \notin Values(authCodes')
               /\ codeUses'[req[r].cred] = 1
    ]_vars

\* C3 witness: a code of client c1 was exchanged, and a later exchange of the
\* same value by c1 with the same redirect uri was answered invalid-grant.
CodeReusedRejected ==
  /\ last.op = "code" /\ last.outcome = "invalid_grant"
  /\ last.client = "c1" /\ last.uri = "uriA"
  /\ last.cred \in DOMAIN codeUses /\ codeUses[last.cred] = 1
  /\ \E t \in accessTokens : t.grantType = "code" /\ t.clientId = "c1"

\* C4: with requests served one after another, a successful rotation leaves
\* the old access token and the presented refresh token absent, values never
\* come back to the store, an introspection of an absent access token answers
\* exactly {active: false}, an exchange of a refresh token exchanged before
\* ends with invalid-grant, and no refresh token is exchanged twice.
RotationSequential ==
  [][/\ \A r \in Reqs :
          req[r].pc = "refresh_saveRT" /\ ExchangeRefreshSaveRefreshToken(r) =>
            /\ req[r].oldAccessToken.value \notin Values(accessTokens')
            /\ req[r].refreshTokenDoc.value \notin Values(refreshTokens')
            /\ [value |-> last'.rtok, accessTokenId |-> last'.tok] \in refreshTokens'
            /\ last'.outcome = "success"
            /\ refreshUses'[req[r].cred] = 1
     /\ Values(accessTokens') \subseteq Values(accessTokens) \cup {nextAccess}
     /\ Values(refreshTokens') \subseteq Values(refreshTokens) \cup {nextRefresh}
     /\ \A r \in Reqs, c \in ClientIds, t \in 1..MaxAccessTokens :
          last'.op = "introspect" /\ Introspect(r, c, t) /\ t \notin Values(accessTokens) =>
            last'.resp = [active |-> FALSE]
     /\ \A r \in Reqs, c \in ClientIds, v \in 1..MaxRefreshTokens :
          refreshUses[v] >= 1 /\ ExchangeRefreshFind(r, c, v) =>
            /\ last' = Answer("refresh_token", c, "", v, "", "invalid_grant", 0, 0)
            /\ req' = req
    ]_vars

\* C4 witness: R1 was exchanged for (A2, R2) and R2 has just been exchanged
\* for (A3, R3).
SecondRotationDone ==
  /\ last.op = "refresh_token" /\ last.outcome = "success"
  /\ last.cred = 2 /\ last.tok = 3 /\ last.rtok = 3
  /\ refreshUses[1] = 1 /\ refreshUses[2] = 1
  /\ Values(accessTokens) = {3} /\ Values(refreshTokens) = {3}

\* C5: a code exchange whose redirect uri differs from the one stored on the
\* code is answered invalid-grant and changes nothing in the store, also when
\* the requesting client is the client of the code.
RedirectUriMismatchRejected ==
  [][\A r \in Reqs, c \in ClientIds, v \in 1..MaxCodes, u \in Uris :
       (/\ \E d \in authCodes : d.value = v /\ d.redirectUri # u
        /\ ExchangeCodeFind(r, c, v, u))
       => /\ last' = Answer("code", c, "", v, u, "invalid_grant", 0, 0)
          /\ req' = req
          /\ StoreUnchanged
          /\ UNCHANGED <<gens, hist>>
    ]_vars

\* C5 witness: the client of a stored code has presented it with another
\* redirect uri and was answered invalid-grant.
RedirectUriMismatchSeen ==
  /\ last.op = "code" /\ last.outcome = "invalid_grant"
  /\ \E d \in authCodes :
       d.value = last.cred /\ d.clientId = last.client /\ d.redirectUri # last.uri

\* C6: introspection answers active: true exactly when the presented value
\* is a stored access token that has not expired and belongs to the
\* requester, and answers exactly {active: false} otherwise.
IntrospectActiveIffLive ==
  [][\A r \in Reqs, c \in ClientIds, t \in 0..MaxAccessTokens :
       last'.op = "introspect" /\ Introspect(r, c, t) =>
         LET live == \E a \in accessTokens :
                       a.value = t /\ ~a.expired /\ a.clientId = c
         IN /\ last'.resp.active = live
            /\ ~live => last'.resp = [active |-> FALSE]
    ]_vars

\* C7: a client-credentials exchange returns no refresh token and leaves the
\* stored refresh tokens as they were.
ClientCredentialsNoRefresh ==
  [][\A r \in Reqs, c \in PresentedClientIds, s \in Secrets, sc \in RequestedScopes :
       last'.op = "client_credentials" /\ ExchangeClientCredentials(r, c, s, sc) =>
         /\ refreshTokens' = refreshTokens
         /\ nextRefresh' = nextRefresh
         /\ last'.rtok = 0
    ]_vars

\* C7 witness: a client-credentials exchange has succeeded while refresh
\* tokens were stored.
ClientCredentialsMinted ==
  /\ last.op = "client_credentials" /\ last.outcome = "success"
  /\ \E t \in accessTokens : t.value = last.tok /\ t.grantType = "client_credentials"
  /\ refreshTokens # {}

\* C8: the implicit grant adds exactly one access token, of grant type
\* token, returns no refresh token and leaves the other collections as they
\* were.
GrantTokenOneAccessToken ==
  [][\A r \in Reqs, c \in ClientIds, u \in UserIds, sc \in ScopeSets :
       last'.op = "grantToken" /\ GrantToken(r, c, u, sc) =>
         /\ \E t \in accessTokens' :
              /\ t \notin accessTokens
              /\ accessTokens' = accessTokens \cup {t}
              /\ t.grantType = "token" /\ t.value = last'.tok
         /\ refreshTokens' = refreshTokens
         /\ nextRefresh' = nextRefresh
         /\ authCodes' = authCodes
         /\ last'.rtok = 0
    ]_vars

\* C8 witness: an implicit grant has been answered while refresh tokens
\* were stored.
GrantTokenDone ==
  /\ last.op = "grantToken" /\ last.outcome = "success"
  /\ \E t \in accessTokens : t.value = last.tok /\ t.grantType = "token"
  /\ refreshTokens # {}

\* C9: a client-credentials exchange by a registered client that has no
\* scopes ends with the configuration error, not with invalid-grant, and
\* mints no token.
EmptyScopesConfigurationError ==
  [][\A r \in Reqs, c \in ClientIds, s \in Secrets, sc \in RequestedScopes :
       (clientModel[c].scopes = {} /\ ExchangeClientCredentials(r, c, s, sc))
       => /\ last'.outcome = "error"
          /\ last'.tok = 0
          /\ StoreUnchanged
          /\ UNCHANGED gens
    ]_vars

\* C9 witness: the client without scopes has presented its own secret and
\* was answered with the configuration error.
EmptyScopesErrorSeen ==
  /\ last.op = "client_credentials" /\ last.outcome = "error"
  /\ last.client = "c2" /\ last.secret = clientModel["c2"].secret

\* C10: a client-credentials exchange with an unknown client id or with a
\* secret that is not the client's is always answered invalid-grant, whatever
\* scopes the client has.
BadSecretUniformlyRejected ==
  [][\A r \in Reqs, c \in PresentedClientIds, s \in Secrets, sc \in RequestedScopes :
       (/\ (c \notin ClientIds \/ clientModel[c].secret # s)
        /\ ExchangeClientCredentials(r, c, s, sc))
       => last'.outcome = "invalid_grant"
    ]_vars

\* C14: a code that is past its expireAt date is never accepted: an exchange
\* that presents it is answered invalid-grant, whether or not the TTL monitor
\* has removed it.
ExpiredCodeRejected ==
  [][\A r \in Reqs, c \in ClientIds, v \in 1..MaxCodes, u \in Uris :
       (/\ \E d \in authCodes : d.value = v /\ d.expired
        /\ ExchangeCodeFind(r, c, v, u))
       => /\ last' = Answer("code", c, "", v, u, "invalid_grant", 0, 0)
          /\ req' = req
    ]_vars

\* C15: a code exchange saves its access token after the code is deleted; the
\* token is the only document added, has grant type code and the client,
\* user and scopes of the code; the refresh token saved next is the only
\* document added and is paired with that access token; the answer carries
\* the values of these two tokens.
CodeExchangeMintsPair ==
  [][\A r \in Reqs :
       /\ (req[r].pc = "code_remove" /\ ExchangeCodeRemove(r)) =>
            /\ req[r].authCode.value \notin Values(authCodes')
            /\ UNCHANGED <<accessTokens, refreshTokens>>
       /\ (req[r].pc = "code_saveAT" /\ ExchangeCodeSaveAccessToken(r)) =>
            /\ req[r].authCode.value \notin Values(authCodes)
            /\ nextAccess \notin Values(accessTokens)
            /\ accessTokens' = accessTokens \cup
                 {[value |-> nextAccess, clientId |-> req[r].authCode.clientId,
                   userId |-> req[r].authCode.userId,
                   scopes |-> req[r].authCode.scopes, grantType |-> "code",
                   expired |-> FALSE]}
            /\ req[r].authCode.userId \in UserIds
            /\ req[r].authCode.clientId = req[r].client
            /\ UNCHANGED <<authCodes, refreshTokens>>
       /\ (req[r].pc = "code_saveRT" /\ ExchangeCodeSaveRefreshToken(r)) =>
            /\ nextRefresh \notin Values(refreshTokens)
            /\ refreshTokens' = refreshTokens \cup
                 {[value |-> nextRefresh, accessTokenId |-> req[r].accessToken]}
            /\ UNCHANGED <<authCodes, accessTokens>>
            /\ last'.outcome = "success"
            /\ last'.tok = req[r].accessToken /\ last'.rtok = nextRefresh
    ]_vars

\* C15 witness: a code exchange has been answered with an access token and a
\* refresh token that are stored, paired, and carry the grant type code.
CodeExchangePairStored ==
  /\ last.op = "code" /\ last.outcome = "success"
  /\ [value |-> last.rtok, accessTokenId |-> last.tok] \in refreshTokens
  /\ \E t \in accessTokens :
       /\ t.value = last.tok /\ t.grantType = "code"
       /\ t.clientId = last.client /\ t.userId = "u1" /\ t.scopes = {"read"}
  /\ last.cred \notin Values(authCodes)

\* C17: a successful client-credentials exchange adds one access token with
\* grant type client_credentials, without a user, with all the scopes of the
\* client, whatever scope the request asks for.
ClientCredentialsFullScopes ==
  [][\A r \in Reqs, c \in ClientIds, s \in Secrets, sc \in RequestedScopes :
       (/\ last'.op = "client_credentials" /\ last'.outcome = "success"
        /\ ExchangeClientCredentials(r, c, s, sc))
       => /\ nextAccess \notin Values(accessTokens)
          /\ accessTokens' = accessTokens \cup
               {[value |-> nextAccess, clientId |-> c, userId |-> "",
                 scopes |-> clientModel[c].scopes,
                 grantType |-> "client_credentials", expired |-> FALSE]}
          /\ last'.tok = nextAccess
    ]_vars

\* C17 witness: client c1 has been answered with a client-credentials token
\* that is stored without a user and with the scopes of c1.
ClientCredentialsTokenStored ==
  /\ last.op = "client_credentials" /\ last.outcome = "success"
  /\ last.client = "c1"
  /\ \E t \in accessTokens :
       /\ t.value = last.tok /\ t.userId = ""
       /\ t.scopes = clientModel["c1"].scopes
       /\ t.grantType = "client_credentials"

\* C19: in every state every stored refresh token references a stored access
\* token, and no two stored refresh tokens reference the same access token.
RefreshTokensPaired ==
  /\ \A t \in refreshTokens : t.accessTokenId \in Values(accessTokens)
  /\ \A t1, t2 \in refreshTokens : t1.accessTokenId = t2.accessTokenId => t1 = t2

\* C11: the password exchange answers invalid_grant and stores nothing when the
\* client is unknown, the secret is wrong, the user is unknown or the password
\* does not match; otherwise it stores an access token of grant type
\* 'password' for that user and client with the requested scope, then a
\* refresh token paired with it, and returns both.
PasswordExchangeChecked ==
  [][/\ \A r \in Reqs, c \in PresentedClientIds, s \in Secrets, un \in Usernames,
          pw \in Passwords, sc \in ScopeSets :
          (/\ last'.op = "password" \/ req'[r].pc = "password_saveAT"
           /\ ExchangePasswordFind(r, c, s, un, pw, sc))
          => LET ok == /\ c \in ClientIds
                       /\ clientModel[c].secret = s
                       /\ \E u \in UserIds : /\ userModel[u].email = un
                                               /\ userModel[u].password = <<"hash", pw>>
             IN /\ StoreUnchanged
                /\ UNCHANGED gens
                /\ ~ok => /\ last' = Answer("password", c, s, 0, "", "invalid_grant", 0, 0)
                           /\ req' = req
                /\ ok => /\ req'[r].pc = "password_saveAT"
                          /\ req'[r].client = c
                          /\ userModel[req'[r].user].email = un
                          /\ req'[r].scope = sc
                          /\ last' = last
     /\ \A r \in Reqs :
          (req[r].pc = "password_saveAT" /\ ExchangePasswordSaveAccessToken(r))
          => /\ accessTokens' = accessTokens \cup
                  {[value |-> req'[r].accessToken, clientId |-> req[r].client,
                    userId |-> req[r].user, scopes |-> req[r].scope,
                    grantType |-> "password", expired |-> FALSE]}
             /\ req'[r].accessToken \notin Values(accessTokens)
             /\ refreshTokens' = refreshTokens
             /\ last' = last
     /\ \A r \in Reqs :
          (req[r].pc = "password_saveRT" /\ ExchangePasswordSaveRefreshToken(r))
          => /\ last'.op = "password" /\ last'.outcome = "success"
             /\ last'.tok = req[r].accessToken
             /\ last'.rtok \notin Values(refreshTokens)
             /\ refreshTokens' = refreshTokens \cup
                  {[value |-> last'.rtok, accessTokenId |-> last'.tok]}
             /\ accessTokens' = accessTokens ]_vars

\* Witness of C11: a password exchange has answered with a pair that is stored.
PasswordPairStored ==
  /\ last.op = "password" /\ last.outcome = "success"
  /\ \E t \in accessTokens : /\ t.value = last.tok
                              /\ t.grantType = "password"
                              /\ t.userId = "u1"
  /\ \E t \in refreshTokens : t.value = last.rtok /\ t.accessTokenId = last.tok

\* C16: a refresh exchange saves a new access token whose userId, clientId,
\* scopes and grantType are those of the access token paired with the
\* presented refresh token, then deletes the old access token, then the old
\* refresh token, then saves a new refresh token paired with the new access
\* token; every rotation of a chain carries the four fields forward.
RefreshCarriesForward ==
  [][/\ \A r \in Reqs :
          (req[r].pc = "refresh_saveAT" /\ ExchangeRefreshSaveAccessToken(r))
          => LET old == req[r].oldAccessToken
             IN /\ req[r].refreshTokenDoc.value = req[r].cred
                /\ req[r].refreshTokenDoc.accessTokenId = old.value
                /\ old.grantType \in {"code", "password"}
                /\ req'[r].accessToken \notin Values(accessTokens)
                /\ accessTokens' = accessTokens \cup
                     {[value |-> req'[r].accessToken, clientId |-> old.clientId,
                       userId |-> old.userId, scopes |-> old.scopes,
                       grantType |-> old.grantType, expired |-> FALSE]}
                /\ refreshTokens' = refreshTokens
                /\ last' = last
     /\ \A r \in Reqs :
          (req[r].pc = "refresh_removeAT" /\ ExchangeRefreshRemoveAccessToken(r))
          => /\ req[r].accessToken \in 1..(nextAccess - 1)
             /\ req[r].accessToken # req[r].oldAccessToken.value
             /\ accessTokens' =
                  {t \in accessTokens : t.value # req[r].oldAccessToken.value}
             /\ refreshTokens' = refreshTokens
             /\ last' = last
     /\ \A r \in Reqs :
          (req[r].pc = "refresh_removeRT" /\ ExchangeRefreshRemoveRefreshToken(r))
          => /\ req[r].oldAccessToken.value \notin Values(accessTokens)
             /\ refreshTokens' = {t \in refreshTokens : t.value # req[r].cred}
             /\ accessTokens' = accessTokens
             /\ last' = last
     /\ \A r \in Reqs :
          (req[r].pc = "refresh_saveRT" /\ ExchangeRefreshSaveRefreshToken(r))
          => /\ req[r].cred \notin Values(refreshTokens)
             /\ last'.op = "refresh_token" /\ last'.outcome = "success"
             /\ last'.tok = req[r].accessToken
             /\ last'.rtok \notin Values(refreshTokens)
             /\ refreshTokens' = refreshTokens \cup
                  {[value |-> last'.rtok, accessTokenId |-> last'.tok]}
             /\ accessTokens' = accessTokens ]_vars

\* Witness of C16: the token of a password exchange has been rotated twice
\* and the live access token is the third of the chain.
PasswordTokenRotatedTwice ==
  /\ last.op = "refresh_token" /\ last.outcome = "success"
  /\ last.tok = 3 /\ last.rtok = 3
  /\ refreshUses[1] = 1 /\ refreshUses[2] = 1
  /\ \E t \in accessTokens : /\ t.value = 3
                              /\ t.grantType = "password"
                              /\ t.userId = "u1" /\ t.clientId = "c1"

\* C20: every stored refresh token whose access token is stored is paired with
\* an access token of grant type 'code' or 'password'; every stored access
\* token has a userId unless its grant type is 'client_credentials'.
GrantTypeInvariant ==
  /\ \A rt \in refreshTokens : \A at \in accessTokens :
       at.value = rt.accessTokenId => at.grantType \in {"code", "password"}
  /\ \A at \in accessTokens :
       at.grantType # "client_credentials" => at.userId \in UserIds

\* Witness of C20: the store holds a password token with its refresh token, an
\* implicit-grant token and a client-credentials token.
AllGrantTypesStored ==
  /\ \E at \in accessTokens : /\ at.grantType = "password"
                               /\ \E rt \in refreshTokens : rt.accessTokenId = at.value
  /\ \E at \in accessTokens : at.grantType = "token"
  /\ \E at \in accessTokens : at.grantType = "client_credentials" /\ at.userId = ""

\* C12: the immediate-approval callback approves exactly when the store holds
\* an access token of this client and user whose scopes equal the requested
\* scope, also when the user holds several tokens of the client.
ImmediateApprovalIffMatchingToken ==
  [][\A r \in Reqs, c \in ClientIds, u \in UserIds, sc \in AuthorizationScopes :
       ImmediateApproval(r, c, u, sc)
       => (last'.outcome = "approved"
           <=> \E t \in accessTokens :
                 t.clientId = c /\ t.userId = u /\ t.scopes = sc) ]_vars

\* C13: a code exchange or refresh exchange that ends with an error leaves the
\* store as the request found it: the presented code, or the presented refresh
\* token and its access token, is still stored and no token minted by the
\* request is stored.
ExchangeAllOrNothing ==
  [][\A r \in Reqs :
       /\ (last'.outcome = "error" /\ ExchangeCodeStepFails(r))
          => /\ req[r].authCode \in authCodes'
             /\ req[r].accessToken \notin Values(accessTokens')
       /\ (last'.outcome = "error" /\ ExchangeRefreshStepFails(r))
          => /\ req[r].refreshTokenDoc \in refreshTokens'
             /\ req[r].oldAccessToken \in accessTokens'
             /\ req[r].accessToken \notin Values(accessTokens') ]_vars

\* C18: a store failure at any store step of an exchange, the first lookup
\* included, is reported through done(err).
StoreFailureReported ==
  [][\A r \in Reqs :
       /\ \A c \in ClientIds, v \in PresentedCodes, u \in Uris :
            ExchangeCodeFindFails(r, c, v, u) => last'.outcome = "error"
       /\ \A c \in PresentedClientIds, s \in Secrets :
            ExchangePasswordFindFails(r, c, s) => last'.outcome = "error"
       /\ \A c \in ClientIds, v \in PresentedRefresh :
            ExchangeRefreshFindFails(r, c, v) => last'.outcome = "error"
       /\ ExchangeCodeStepFails(r) => last'.outcome = "error"
       /\ ExchangePasswordStepFails(r) => last'.outcome = "error"
       /\ ExchangeRefreshStepFails(r) => last'.outcome = "error" ]_vars

\* C21: a code exchange or refresh exchange of an unknown value, by another
\* client or with another redirect uri is answered with invalid-grant and
\* leaves the store, the value generators and the requests as they were; a
\* stored code rejected for its client or redirect uri is still stored and
\* still passes the check for the client and redirect uri it was issued to.
RejectedExchangeChangesNothing ==
  [][/\ \A r \in Reqs, c \in ClientIds, v \in 1..MaxCodes, u \in Uris :
          (/\ last'.op = "code"
           /\ \A d \in authCodes :
                d.value = v => (d.clientId # c \/ d.redirectUri # u)
           /\ ExchangeCodeFind(r, c, v, u))
          => /\ last' = Answer("code", c, "", v, u, "invalid_grant", 0, 0)
             /\ StoreUnchanged
             /\ UNCHANGED <<gens, hist>>
             /\ req' = req
             /\ \A d \in authCodes :
                  d.value = v =>
                    CodeMatches(FindOne(authCodes', NoCode, v), d.clientId, d.redirectUri)
     /\ \A r \in Reqs, c \in ClientIds, v \in 1..MaxRefreshTokens :
          (/\ last'.op = "refresh_token"
           /\ \A t \in refreshTokens :
                t.value = v => \E a \in accessTokens :
                                 a.value = t.accessTokenId /\ a.clientId # c
           /\ ExchangeRefreshFind(r, c, v))
          => /\ last' = Answer("refresh_token", c, "", v, "", "invalid_grant", 0, 0)
             /\ StoreUnchanged
             /\ UNCHANGED <<gens, hist>>
             /\ req' = req ]_vars

\* Witness of C21: a stored code was presented by a client it was not issued
\* to, the answer was invalid-grant and the code is still stored.
WrongClientCodeKept ==
  /\ last.op = "code" /\ last.outcome = "invalid_grant"
  /\ \E d \in authCodes :
       d.value = last.cred /\ d.clientId # last.client /\ ~d.expired

\* C22: a refresh exchange that finds the refresh token while the access token
\* paired with it is no longer stored is answered with invalid-grant.
DanglingRefreshRejected ==
  [][\A r \in Reqs, c \in ClientIds, v \in 1..MaxRefreshTokens :
       (/\ last'.op = "refresh_token"
        /\ \E t \in refreshTokens :
             t.value = v /\ t.accessTokenId \notin Values(accessTokens)
        /\ ExchangeRefreshFind(r, c, v))
       => /\ last' = Answer("refresh_token", c, "", v, "", "invalid_grant", 0, 0)
          /\ req' = req ]_vars

TypeOK == nextAccess \in 1..(MaxAccessTokens + 1)
====
